---- MODULE Spec2Model ----
(***************************************************************************)
(* Model of backend/scheduler_engine.py: the document-request simulation   *)
(* engine (request and staff records, priority score, allocators, the      *)
(* processing loop of SimulationEngine.run and the metrics report).        *)
(*                                                                         *)
(* Time is an integer number of ticks of 0.01 minute; the engine's         *)
(* start_time is tick 0.  A priority score is kept as the integer          *)
(* score * ScoreScale, which is exact for every weight and table entry of  *)
(* the source.  An Optional field is <<>> for None and <<v>> for v.        *)
(***************************************************************************)
EXTENDS Integers, Sequences, FiniteSets, TLC

VARIABLES
    scheduler_type,   \* SimulationEngine.scheduler_type
    allocator_type,   \* the kind handed to _create_allocator
    staff_pool,       \* SimulationEngine.staff_pool
    completed,        \* SimulationEngine.completed
    start_time,       \* SimulationEngine.start_time
    scenario,         \* SimulationEngine.scenario
    pc,               \* position of run: "idle" outside, "loop" inside the for loop
    sorted_requests,  \* run's local sorted_requests (the request objects of the batch)
    idx,              \* index of the next request of the for loop
    duration_min,     \* run's argument duration_min
    result,           \* what the last call of run returned or raised
    runs,             \* number of calls of run made on this engine
    probe,            \* a request on which calculate_priority is called directly
    now,              \* the current_time handed to that call
    sched_class,      \* the class of a scheduler object used on its own
    queue,            \* that scheduler's queue
    returned          \* what its last get_all returned

vars == <<scheduler_type, allocator_type, staff_pool, completed, start_time, scenario,
          pc, sorted_requests, idx, duration_min, result, runs, probe, now,
          sched_class, queue, returned>>

schedVars == <<sched_class, queue, returned>>

engineVars == <<scheduler_type, allocator_type, staff_pool, completed, start_time,
                scenario, pc, sorted_requests, idx, duration_min, result, runs>>

(***************************************************************************)
(* Bounds of the model.                                                    *)
(***************************************************************************)
\* requests per batch of a first run (the source generates 70..100)
MaxBatch == 2
\* requests per batch when one engine is run several times
ReuseBatch == 1
\* calls of run on one engine when it is run several times
MaxRuns == 2

\* the resolution of a datetime: ticks of 0.01 minute
TicksPerMinute == 100

None == <<>>
Some(v) == <<v>>
IsSet(o) == o # <<>>
Val(o) == o[1]

Max(a, b) == IF a >= b THEN a ELSE b
Min(a, b) == IF a <= b THEN a ELSE b

RECURSIVE SumSeq(_)
SumSeq(s) == IF s = <<>> THEN 0 ELSE Head(s) + SumSeq(Tail(s))

(***************************************************************************)
(* Configuration tables.                                                   *)
(***************************************************************************)
\* the unit of a score: 1.0 is ScoreScale
ScoreScale == 240000

\* PRIORITY_WEIGHTS: 0.40, 0.25, 0.20, 0.15
WeightUrgency == (40 * ScoreScale) \div 100
WeightRequester == (25 * ScoreScale) \div 100
WeightWaiting == (20 * ScoreScale) \div 100
WeightDocument == (15 * ScoreScale) \div 100

RequesterTypes ==
    {"Graduating Student", "Enrolling Student", "Faculty", "Alumni", "Regular Student"}

REQUESTER_PRIORITY(t) ==
    CASE t = "Graduating Student" -> 10
      [] t = "Enrolling Student" -> 8
      [] t = "Faculty" -> 7
      [] t = "Alumni" -> 5
      [] t = "Regular Student" -> 3
      [] OTHER -> 3

DocumentTypes ==
    {"Transcript of Records", "Certificate of Enrollment", "Honorable Dismissal",
     "Certification"}

\* DOCUMENT_COMPLEXITY in tenths: 1.5, 1.0, 1.2, 0.8
DOCUMENT_COMPLEXITY(d) ==
    CASE d = "Transcript of Records" -> 15
      [] d = "Certificate of Enrollment" -> 10
      [] d = "Honorable Dismissal" -> 12
      [] d = "Certification" -> 8
      [] OTHER -> 10

COLLEGES == <<"COE", "CAS", "CBA", "CEGE", "CS", "IE">>

(***************************************************************************)
(* DocumentRequest.                                                        *)
(***************************************************************************)
\* calculate_priority: the score * ScoreScale.  waiting_minutes / 120 is
\* ticks / (120 * TicksPerMinute); 1 / doc_complexity is 10 / tenths.
CalculatePriority(req, current_time) ==
    LET waiting_ticks == current_time - req.submission_time
        waiting_term == Min((WeightWaiting * waiting_ticks) \div (120 * TicksPerMinute),
                            WeightWaiting)
        doc_term == (WeightDocument * 10) \div DOCUMENT_COMPLEXITY(req.document_type)
    IN  (WeightUrgency * req.urgency) \div 10
        + (WeightRequester * REQUESTER_PRIORITY(req.requester_type)) \div 10
        + waiting_term
        + doc_term

GetWaitingTime(req) ==
    IF IsSet(req.assignment_time) THEN Val(req.assignment_time) - req.submission_time ELSE 0

GetTurnaroundTime(req) ==
    IF IsSet(req.completion_time) THEN Val(req.completion_time) - req.submission_time ELSE 0

NewRequest(batch, i, college, doc, urgency, requester, submission) ==
    [batch |-> batch, request_id |-> i, college |-> college, document_type |-> doc,
     urgency |-> urgency, requester_type |-> requester, submission_time |-> submission,
     priority_score |-> 0, assignment_time |-> None, completion_time |-> None,
     assigned_staff |-> None]

(***************************************************************************)
(* StaffMember.                                                            *)
(***************************************************************************)
NewStaff(id, college) ==
    [staff_id |-> id, college_affiliation |-> college, next_available_time |-> 0,
     total_assigned |-> 0, is_available |-> TRUE]

\* AssignRequest without the increment of the count
AssignRequestNoCount(staff, assignment_time, processing_time) ==
    [staff EXCEPT !.next_available_time = assignment_time + processing_time]

\* AssignRequest with the assignment time left out of the next available time
AssignRequestFromZero(staff, assignment_time, processing_time) ==
    [staff EXCEPT !.total_assigned = @ + 1, !.next_available_time = processing_time]

AssignRequest(staff, assignment_time, processing_time) ==
    [staff EXCEPT !.total_assigned = @ + 1,
                  !.next_available_time = assignment_time + processing_time]

InitStaff ==
    <<NewStaff("STAFF001", "COE"), NewStaff("STAFF002", "CAS"), NewStaff("STAFF003", "CBA"),
      NewStaff("STAFF004", "CEGE"), NewStaff("STAFF005", "CS"), NewStaff("STAFF006", "IE")>>

(***************************************************************************)
(* Allocators.  Each returns the set of indexes of staff_pool the call may *)
(* return: empty for None, one index for the deterministic allocators,     *)
(* every candidate for random.choice.                                      *)
(***************************************************************************)
Available(pool) == {i \in DOMAIN pool : pool[i].is_available}

\* CollegeStaff with StaffMember.can_accept as the filter: busy staff are left out
CollegeStaffCanAccept(pool, req) ==
    {i \in DOMAIN pool :
        /\ pool[i].college_affiliation = req.college
        /\ pool[i].is_available
        /\ req.submission_time >= pool[i].next_available_time}

\* CollegeStaff without the test of is_available
CollegeStaffAnyFlag(pool, req) ==
    {i \in DOMAIN pool : pool[i].college_affiliation = req.college}

CollegeStaff(pool, req) ==
    {i \in DOMAIN pool : pool[i].college_affiliation = req.college /\ pool[i].is_available}

\* FirstMinByAssigned taking the greatest count
FirstMaxByAssigned(pool, cands) ==
    CHOOSE i \in cands :
        \A j \in cands :
            \/ pool[i].total_assigned > pool[j].total_assigned
            \/ pool[i].total_assigned = pool[j].total_assigned /\ i <= j

\* Python's min(list, key=...): the first element of the list with the least key.
FirstMinByAssigned(pool, cands) ==
    CHOOSE i \in cands :
        \A j \in cands :
            \/ pool[i].total_assigned < pool[j].total_assigned
            \/ pool[i].total_assigned = pool[j].total_assigned /\ i <= j

StartKey(pool, i, submission_time) == Max(pool[i].next_available_time, submission_time)

CollegeBasedAssign(pool, req, submission_time) == CollegeStaff(pool, req)

WorkloadBasedAssign(pool, req, submission_time) ==
    LET college_staff == CollegeStaff(pool, req)
        available == Available(pool)
    IN  IF college_staff # {} THEN {FirstMinByAssigned(pool, college_staff)}
        ELSE IF available # {} THEN {FirstMinByAssigned(pool, available)}
        ELSE {}

PooledAssign(pool, req, submission_time) ==
    LET available == Available(pool)
    IN  IF available # {}
        THEN {CHOOSE i \in available :
                \A j \in available :
                    \/ StartKey(pool, i, submission_time) < StartKey(pool, j, submission_time)
                    \/ /\ StartKey(pool, i, submission_time) = StartKey(pool, j, submission_time)
                       /\ i <= j}
        ELSE {}

\* QuotaFreeAssign returning the last of the staff with the least key
QuotaFreeAssignLastMin(pool, req, submission_time) ==
    LET available == Available(pool)
    IN  IF available # {}
        THEN {CHOOSE i \in available :
                \A j \in available :
                    \/ StartKey(pool, i, submission_time) < StartKey(pool, j, submission_time)
                    \/ /\ StartKey(pool, i, submission_time) = StartKey(pool, j, submission_time)
                       /\ i >= j}
        ELSE {}

QuotaFreeAssign(pool, req, submission_time) ==
    LET available == Available(pool)
    IN  IF available # {}
        THEN {CHOOSE i \in available :
                \A j \in available :
                    \/ StartKey(pool, i, submission_time) < StartKey(pool, j, submission_time)
                    \/ /\ StartKey(pool, i, submission_time) = StartKey(pool, j, submission_time)
                       /\ i <= j}
        ELSE {}

AllocatorTypes == {"college_based", "workload_based", "pooled", "quota_free"}

\* Assign with the pooled allocator as the fallback
AssignPooledDefault(kind, pool, req, submission_time) ==
    CASE kind = "college_based" -> CollegeBasedAssign(pool, req, submission_time)
      [] kind = "workload_based" -> WorkloadBasedAssign(pool, req, submission_time)
      [] kind = "pooled" -> PooledAssign(pool, req, submission_time)
      [] kind = "quota_free" -> QuotaFreeAssign(pool, req, submission_time)
      [] OTHER -> PooledAssign(pool, req, submission_time)

\* _create_allocator followed by allocator.assign: the dict lookup falls back to
\* CollegeBasedAllocator for a kind that is not a key.
Assign(kind, pool, req, submission_time) ==
    CASE kind = "college_based" -> CollegeBasedAssign(pool, req, submission_time)
      [] kind = "workload_based" -> WorkloadBasedAssign(pool, req, submission_time)
      [] kind = "pooled" -> PooledAssign(pool, req, submission_time)
      [] kind = "quota_free" -> QuotaFreeAssign(pool, req, submission_time)
      [] OTHER -> CollegeBasedAssign(pool, req, submission_time)

(***************************************************************************)
(* Schedulers: Python's sorted is stable, also with reverse=True.          *)
(***************************************************************************)
RECURSIVE InsertAscendingStrict(_, _)
\* InsertAscending putting r before the elements of its own submission_time
InsertAscendingStrict(s, r) ==
    IF s = <<>> THEN <<r>>
    ELSE IF Head(s).submission_time < r.submission_time
         THEN <<Head(s)>> \o InsertAscendingStrict(Tail(s), r)
         ELSE <<r>> \o s

RECURSIVE InsertAscending(_, _)
\* r goes behind every element whose submission_time is <= its own
InsertAscending(s, r) ==
    IF s = <<>> THEN <<r>>
    ELSE IF Head(s).submission_time <= r.submission_time
         THEN <<Head(s)>> \o InsertAscending(Tail(s), r)
         ELSE <<r>> \o s

RECURSIVE SortBySubmission(_)
SortBySubmission(s) ==
    IF s = <<>> THEN <<>>
    ELSE InsertAscending(SortBySubmission(SubSeq(s, 1, Len(s) - 1)), s[Len(s)])

RECURSIVE InsertDescendingStrict(_, _)
\* InsertDescending putting r before the elements of its own priority_score
InsertDescendingStrict(s, r) ==
    IF s = <<>> THEN <<r>>
    ELSE IF Head(s).priority_score > r.priority_score
         THEN <<Head(s)>> \o InsertDescendingStrict(Tail(s), r)
         ELSE <<r>> \o s

RECURSIVE InsertDescending(_, _)
\* r goes behind every element whose priority_score is >= its own
InsertDescending(s, r) ==
    IF s = <<>> THEN <<r>>
    ELSE IF Head(s).priority_score >= r.priority_score
         THEN <<Head(s)>> \o InsertDescending(Tail(s), r)
         ELSE <<r>> \o s

RECURSIVE SortByPriorityDescending(_)
SortByPriorityDescending(s) ==
    IF s = <<>> THEN <<>>
    ELSE InsertDescending(SortByPriorityDescending(SubSeq(s, 1, Len(s) - 1)), s[Len(s)])

SchedulerTypes == {"FCFS", "WEIGHTED"}

(***************************************************************************)
(* _generate_requests.                                                     *)
(***************************************************************************)
Scenarios == {"baseline", "staff_absence", "peak_urgency", "workload_imbalance"}

\* total_requests: the source's 80 / 70 / 100 / 90 (80 for any other name), scaled
\* to the batch size n of the model.
TotalRequests(scen, n) ==
    CASE scen = "baseline" -> n
      [] scen = "staff_absence" -> n
      [] scen = "peak_urgency" -> n
      [] scen = "workload_imbalance" -> n
      [] OTHER -> n

UrgencyRange(scen) == IF scen = "peak_urgency" THEN {7, 8, 9, 10} ELSE {3, 4, 5, 6, 7}

\* the values random.choice(colleges) can return: ["COE"]*7 + COLLEGES has the
\* members of COLLEGES
CollegeChoices(scen) == {COLLEGES[i] : i \in DOMAIN COLLEGES}

\* i * (duration_min / total_requests) minutes, in ticks
TimeOffset(i, dur, total) == (i * dur * TicksPerMinute) \div total

\* StaffAfterScenario marking the member before STAFF003
StaffAfterScenarioSecond(pool, scen) ==
    IF scen = "staff_absence" THEN [pool EXCEPT ![2].is_available = FALSE] ELSE pool

\* StaffAfterScenario without the test of the scenario
StaffAfterScenarioAlways(pool, scen) == [pool EXCEPT ![3].is_available = FALSE]

\* StaffAfterScenario putting the member back for every other scenario
StaffAfterScenarioReset(pool, scen) ==
    [pool EXCEPT ![3].is_available = (scen # "staff_absence")]

StaffAfterScenario(pool, scen) ==
    IF scen = "staff_absence" THEN [pool EXCEPT ![3].is_available = FALSE] ELSE pool

(***************************************************************************)
(* The draws of the random source the model follows.                       *)
(***************************************************************************)
CollegeDraws(scen) == CollegeChoices(scen) \cap {"COE", "CBA"}
DocumentDraws == {"Transcript of Records", "Certification"}
UrgencyDraws(scen) == {u \in UrgencyRange(scen) : u \in {3, 7, 10}}
RequesterDraws == {"Graduating Student"}

\* random.uniform(base_mins * 0.8, base_mins * 1.2) minutes with
\* base_mins = DOCUMENT_COMPLEXITY * 3, in ticks: the two ends of the interval
ProcessingTimes(doc) ==
    LET base_ticks == DOCUMENT_COMPLEXITY(doc) * 3 * (TicksPerMinute \div 10)
    IN  {(base_ticks * 8) \div 10, (base_ticks * 12) \div 10}

(***************************************************************************)
(* _calculate_metrics.  Averages are in ticks (a tick is the 0.01 minute   *)
(* round(x, 2) keeps), throughput in hundredths of a request per hour.     *)
(***************************************************************************)
RoundDiv(a, b) == (2 * a + b) \div (2 * b)

RECURSIVE WaitingTimes(_)
WaitingTimes(s) ==
    IF s = <<>> THEN <<>> ELSE <<GetWaitingTime(Head(s))>> \o WaitingTimes(Tail(s))

RECURSIVE TurnaroundTimes(_)
TurnaroundTimes(s) ==
    IF s = <<>> THEN <<>> ELSE <<GetTurnaroundTime(Head(s))>> \o TurnaroundTimes(Tail(s))

\* {s.staff_id: s.total_assigned for s in self.staff_pool}: a later entry of the
\* pool overwrites an earlier one with the same staff_id
StaffLoad(pool) ==
    [id \in {pool[i].staff_id : i \in DOMAIN pool} |->
        LET last == CHOOSE i \in DOMAIN pool :
                        /\ pool[i].staff_id = id
                        /\ \A j \in DOMAIN pool : pool[j].staff_id = id => j <= i
        IN  pool[last].total_assigned]

NoResult == [kind |-> "none"]

\* CalculateMetrics with an empty staff_load when nothing was completed
CalculateMetricsEmptyLoad(done, pool, scen, dur) ==
    IF done = <<>>
    THEN [kind |-> "report", avg_waiting_time |-> 0, avg_turnaround |-> 0, throughput |-> 0,
          total_processed |-> 0, staff_load |-> <<>>, scenario |-> scen]
    ELSE [kind |-> "report",
          avg_waiting_time |-> RoundDiv(SumSeq(WaitingTimes(done)), Len(done)),
          avg_turnaround |-> RoundDiv(SumSeq(TurnaroundTimes(done)), Len(done)),
          throughput |-> 0,
          total_processed |-> Len(done), staff_load |-> StaffLoad(pool), scenario |-> scen]

CalculateMetrics(done, pool, scen, dur) ==
    IF done = <<>>
    THEN [kind |-> "report", avg_waiting_time |-> 0, avg_turnaround |-> 0, throughput |-> 0,
          total_processed |-> 0, staff_load |-> StaffLoad(pool), scenario |-> scen]
    ELSE IF dur = 0
    THEN [kind |-> "error", error |-> "ZeroDivisionError"]
    ELSE [kind |-> "report",
          avg_waiting_time |-> RoundDiv(SumSeq(WaitingTimes(done)), Len(done)),
          avg_turnaround |-> RoundDiv(SumSeq(TurnaroundTimes(done)), Len(done)),
          throughput |-> IF dur > 0 THEN RoundDiv(Len(done) * 6000, dur)
                         ELSE 0 - RoundDiv(Len(done) * 6000, 0 - dur),
          total_processed |-> Len(done), staff_load |-> StaffLoad(pool), scenario |-> scen]

(***************************************************************************)
(* SimulationEngine.run, in steps: the prologue up to the sort (or the     *)
(* raise), one iteration of the for loop, and the return.                  *)
(***************************************************************************)
Durations == {0 - 1, 0, 1, 60}

Attributes(scen) ==
    [college : CollegeDraws(scen), document_type : DocumentDraws,
     urgency : UrgencyDraws(scen), requester_type : RequesterDraws]

\* the narrower draws followed when one engine is run several times
ReuseAttributes(scen) ==
    [college : CollegeDraws(scen), document_type : {"Certificate of Enrollment"},
     urgency : {u \in UrgencyRange(scen) : u = 7}, requester_type : RequesterDraws]

GenerateRequests(scen, dur, total, draw) ==
    [i \in 1..total |->
        NewRequest(runs + 1, i - 1, draw[i].college, draw[i].document_type, draw[i].urgency,
                   draw[i].requester_type, start_time + TimeOffset(i - 1, dur, total))]

ScoreAll(requests, simulation_start) ==
    [i \in DOMAIN requests |->
        [requests[i] EXCEPT !.priority_score = CalculatePriority(requests[i], simulation_start)]]

EndTime(dur) == start_time + dur * TicksPerMinute

\* draws[scen] is the set of field values followed for a request of scenario scen
RunBegin(n, scens, durs, draws) ==
    /\ pc = "idle"
    /\ \E scen \in scens, dur \in durs :
         LET total == TotalRequests(scen, n) IN
         \E draw \in [1..total -> draws[scen]] :
           LET requests == GenerateRequests(scen, dur, total, draw) IN
           /\ scenario' = scen
           /\ staff_pool' = StaffAfterScenario(staff_pool, scen)
           /\ duration_min' = dur
           /\ runs' = runs + 1
           /\ IF scheduler_type = "FCFS"
              THEN /\ sorted_requests' = SortBySubmission(requests)
                   /\ pc' = "loop" /\ idx' = 1 /\ result' = NoResult
              ELSE IF scheduler_type = "WEIGHTED"
              THEN /\ sorted_requests' =
                         SortByPriorityDescending(ScoreAll(requests, start_time))
                   /\ pc' = "loop" /\ idx' = 1 /\ result' = NoResult
              ELSE /\ result' = [kind |-> "error", error |-> "ValueError",
                                 message |-> scheduler_type]
                   /\ pc' = "idle" /\ idx' = 0 /\ sorted_requests' = <<>>
    /\ UNCHANGED <<scheduler_type, allocator_type, completed, start_time, probe, now,
                   schedVars>>

\* AssignmentTime without the max with the submission time
AssignmentTimeNoMax(req, staff) == staff.next_available_time

\* AssignmentTime without the member's next available time
AssignmentTimeSubmission(req, staff) == req.submission_time

AssignmentTime(req, staff) == Max(req.submission_time, staff.next_available_time)

\* CompleteRequest with the completion time counted from the submission
CompleteRequestFromSubmission(req, staff, processing_time) ==
    [req EXCEPT !.assignment_time = Some(AssignmentTime(req, staff)),
                !.assigned_staff = Some(staff.staff_id),
                !.completion_time = Some(req.submission_time + processing_time)]

\* CompleteRequest without the completion time
CompleteRequestPartial(req, staff, processing_time) ==
    [req EXCEPT !.assignment_time = Some(AssignmentTime(req, staff)),
                !.assigned_staff = Some(staff.staff_id)]

CompleteRequest(req, staff, processing_time) ==
    [req EXCEPT !.assignment_time = Some(AssignmentTime(req, staff)),
                !.assigned_staff = Some(staff.staff_id),
                !.completion_time = Some(AssignmentTime(req, staff) + processing_time)]

\* BeyondDuration with the comparison turned round
BeyondDurationReversed(req, dur) == req.submission_time < EndTime(dur)

BeyondDuration(req, dur) == req.submission_time > EndTime(dur)

Step ==
    /\ pc = "loop"
    /\ idx <= Len(sorted_requests)
    /\ LET req == sorted_requests[idx]
           cands == Assign(allocator_type, staff_pool, req, req.submission_time)
       IN  IF BeyondDuration(req, duration_min) \/ cands = {}
           THEN UNCHANGED <<staff_pool, completed, sorted_requests>>
           ELSE \E s \in cands, processing_time \in ProcessingTimes(req.document_type) :
                  LET staff == staff_pool[s]
                      done == CompleteRequest(req, staff, processing_time)
                  IN  /\ staff_pool' =
                           [staff_pool EXCEPT
                              ![s] = AssignRequest(staff, AssignmentTime(req, staff),
                                                   processing_time)]
                      /\ sorted_requests' = [sorted_requests EXCEPT ![idx] = done]
                      /\ completed' = Append(completed, done)
    /\ idx' = idx + 1
    /\ UNCHANGED <<scheduler_type, allocator_type, start_time, scenario, pc, duration_min,
                   result, runs, probe, now, schedVars>>

Return ==
    /\ pc = "loop"
    /\ idx > Len(sorted_requests)
    /\ result' = CalculateMetrics(completed, staff_pool, scenario, duration_min)
    /\ pc' = "idle" /\ idx' = 0 /\ sorted_requests' = <<>>
    /\ UNCHANGED <<scheduler_type, allocator_type, staff_pool, completed, start_time,
                   scenario, duration_min, runs, probe, now, schedVars>>

(***************************************************************************)
(* Specifications.                                                         *)
(***************************************************************************)
NoProbe == <<>>

\* SimulationEngine.__init__, for every scheduler and allocator kind, a kind
\* that is none of the known ones included
Init ==
    /\ scheduler_type \in SchedulerTypes \cup {"RANDOM"}
    /\ allocator_type \in AllocatorTypes \cup {"round_robin"}
    /\ staff_pool = InitStaff
    /\ completed = <<>>
    /\ start_time = 0
    /\ scenario = "baseline"
    /\ pc = "idle" /\ sorted_requests = <<>> /\ idx = 0 /\ duration_min = 0
    /\ result = NoResult /\ runs = 0
    /\ probe = NoProbe /\ now = 0
    /\ sched_class = "none" /\ queue = <<>> /\ returned = <<>>

\* one call of run on a fresh engine
Run ==
    /\ runs = 0
    /\ RunBegin(MaxBatch, Scenarios \cup {"holiday"}, Durations,
                [scen \in Scenarios \cup {"holiday"} |-> Attributes(scen)])

Next == Run \/ Step \/ Return

Spec == Init /\ [][Next]_vars

\* several calls of run on one engine
ReuseScenarios == Scenarios
ReuseDurations == {60}

RunAgain ==
    /\ runs < MaxRuns
    /\ RunBegin(ReuseBatch, ReuseScenarios, ReuseDurations,
                [scen \in ReuseScenarios |-> ReuseAttributes(scen)])

NextReuse == RunAgain \/ Step \/ Return

SpecReuse == Init /\ [][NextReuse]_vars

(***************************************************************************)
(* calculate_priority called on one request, for every value of its        *)
(* fields and several waits.                                               *)
(***************************************************************************)
ProbeWaits == {0, 30 * TicksPerMinute, 120 * TicksPerMinute, 150 * TicksPerMinute}

InitScore ==
    /\ scheduler_type = "WEIGHTED"
    /\ allocator_type = "college_based"
    /\ staff_pool = InitStaff
    /\ completed = <<>>
    /\ start_time = 0
    /\ scenario = "baseline"
    /\ pc = "idle" /\ sorted_requests = <<>> /\ idx = 0 /\ duration_min = 0
    /\ result = NoResult /\ runs = 0
    /\ now \in ProbeWaits
    /\ sched_class = "none" /\ queue = <<>> /\ returned = <<>>
    /\ \E d \in DocumentTypes, u \in 1..10, r \in RequesterTypes :
         probe = <<NewRequest(0, 0, "COE", d, u, r, 0)>>

ScoreProbe ==
    /\ probe # NoProbe
    /\ probe' = <<[probe[1] EXCEPT !.priority_score = CalculatePriority(probe[1], now)]>>
    /\ UNCHANGED <<engineVars, now, schedVars>>

NextScore == ScoreProbe

SpecScore == InitScore /\ [][NextScore]_vars

(***************************************************************************)
(* The scheduler classes FCFSScheduler and WeightedPriorityScheduler, used *)
(* on their own: add_request and get_all.                                  *)
(***************************************************************************)
\* requests a scheduler may hold at once
MaxQueue == 2

SchedulerClasses == {"FCFSScheduler", "WeightedPriorityScheduler"}

\* the submission times and scores of the requests handed to add_request
QueuedTimes == {0, TicksPerMinute}
QueuedScores == {0, ScoreScale \div 2}

\* FCFSScheduler.get_all: a copy of the queue
FCFSGetAll(q) == q

\* WeightedPriorityScheduler.get_all
WeightedGetAll(q) == SortByPriorityDescending(q)

InitScheduler ==
    /\ scheduler_type = "FCFS"
    /\ allocator_type = "college_based"
    /\ staff_pool = InitStaff
    /\ completed = <<>>
    /\ start_time = 0
    /\ scenario = "baseline"
    /\ pc = "idle" /\ sorted_requests = <<>> /\ idx = 0 /\ duration_min = 0
    /\ result = NoResult /\ runs = 0
    /\ probe = NoProbe /\ now = 0
    /\ sched_class \in SchedulerClasses /\ queue = <<>> /\ returned = <<>>

AddRequest ==
    /\ sched_class \in SchedulerClasses
    /\ Len(queue) < MaxQueue
    /\ \E t \in QueuedTimes, score \in QueuedScores :
         queue' = Append(queue,
                         [NewRequest(0, Len(queue), "COE", "Certification", 5, "Alumni", t)
                            EXCEPT !.priority_score = score])
    /\ UNCHANGED <<engineVars, probe, now, sched_class, returned>>

GetAll ==
    /\ sched_class \in SchedulerClasses
    /\ returned' = IF sched_class = "FCFSScheduler" THEN FCFSGetAll(queue)
                   ELSE WeightedGetAll(queue)
    /\ queue' = <<>>
    /\ UNCHANGED <<engineVars, probe, now, sched_class>>

NextScheduler == AddRequest \/ GetAll

SpecScheduler == InitScheduler /\ [][NextScheduler]_vars

(***************************************************************************)
(* Properties.                                                             *)
(***************************************************************************)
InLoop == pc = "loop" /\ idx <= Len(sorted_requests)

Elements(seq) == {seq[i] : i \in DOMAIN seq}

AllRequests == Elements(sorted_requests) \cup Elements(completed)

StaffIndex(id) == CHOOSE i \in DOMAIN staff_pool : staff_pool[i].staff_id = id

RECURSIVE SumLoad(_, _)
SumLoad(load, ids) ==
    IF ids = {} THEN 0
    ELSE LET id == CHOOSE x \in ids : TRUE IN load[id] + SumLoad(load, ids \ {id})

RECURSIVE SumAssigned(_)
SumAssigned(pool) ==
    IF pool = <<>> THEN 0 ELSE Head(pool).total_assigned + SumAssigned(Tail(pool))

\* C1: in every state of a run, a request whose assignment_time is set has
\* assignment_time >= submission_time and a completion_time >= assignment_time.
C1_TimesOrdered ==
    \A r \in AllRequests :
        IsSet(r.assignment_time) =>
            /\ Val(r.assignment_time) >= r.submission_time
            /\ IsSet(r.completion_time)
            /\ Val(r.completion_time) >= Val(r.assignment_time)

\* a request that had to wait for its staff member has been completed
C1_Witness ==
    /\ pc = "loop"
    /\ \E r \in Elements(completed) :
         /\ Val(r.assignment_time) > r.submission_time
         /\ Val(r.completion_time) > Val(r.assignment_time)

\* C2: after every step of the loop each generated request has all of
\* assignment_time, completion_time and assigned_staff set or none of them, has
\* them set exactly when it is in the completed set, is untouched until the loop
\* reaches it, and no request is in the completed set twice.
C2_AtomicAssignment ==
    /\ \A i \in DOMAIN sorted_requests :
         LET r == sorted_requests[i] IN
         /\ \/ IsSet(r.assignment_time) /\ IsSet(r.completion_time) /\ IsSet(r.assigned_staff)
            \/ ~IsSet(r.assignment_time) /\ ~IsSet(r.completion_time)
               /\ ~IsSet(r.assigned_staff)
         /\ IsSet(r.assignment_time) <=> r \in Elements(completed)
         /\ i >= idx => ~IsSet(r.assignment_time)
    /\ \A r \in Elements(completed) :
         IsSet(r.assignment_time) /\ IsSet(r.completion_time) /\ IsSet(r.assigned_staff)
    /\ \A i, j \in DOMAIN completed : i # j => completed[i] # completed[j]

\* the loop is past its first request, one request is assigned and one is not
C2_Witness ==
    /\ pc = "loop" /\ idx > 1
    /\ \E r \in Elements(sorted_requests) : r \in Elements(completed)
    /\ \E r \in Elements(sorted_requests) : ~IsSet(r.assignment_time)

\* C3: the staff_load of every report has 6 entries whose sum is total_processed,
\* and the sum of total_assigned over the roster is the size of the completed set,
\* after any number of runs.
C3_LoadSumsToProcessed ==
    /\ SumAssigned(staff_pool) = Len(completed)
    /\ result.kind = "report" =>
         /\ Cardinality(DOMAIN result.staff_load) = 6
         /\ SumLoad(result.staff_load, DOMAIN result.staff_load) = result.total_processed

\* a report of a second run on the same engine, with requests of both runs counted
C3_Witness ==
    /\ runs = 2 /\ pc = "idle" /\ result.kind = "report"
    /\ result.total_processed > ReuseBatch
    /\ \E id \in DOMAIN result.staff_load : result.staff_load[id] >= 2

BaselineReport ==
    /\ scheduler_type = "FCFS" /\ allocator_type = "college_based"
    /\ pc = "idle" /\ result.kind = "report"
    /\ scenario = "baseline" /\ duration_min = 60

\* C4, as claimed: every call of run("baseline", 60) on an arrival-order,
\* college-based engine reports 0 < total_processed <= the baseline batch size.
C4_EveryRunWithinBatch ==
    BaselineReport =>
        /\ result.total_processed > 0
        /\ result.total_processed <= TotalRequests("baseline", ReuseBatch)

\* C4, amended: the first call of run on the engine does.
C4_FirstRunWithinBatch ==
    (BaselineReport /\ runs = 1) =>
        /\ result.total_processed > 0
        /\ result.total_processed <= TotalRequests("baseline", ReuseBatch)

C4_Witness ==
    /\ BaselineReport /\ runs = 1
    /\ result.total_processed = TotalRequests("baseline", ReuseBatch)

\* C5: a call of run on an engine with an unknown scheduler kind raises an error
\* naming the kind and leaves completed, the roster and the scenario label as
\* they were (on such an engine every call fails, so they keep their first values).
C5_NoPartialRun ==
    (scheduler_type \notin SchedulerTypes /\ runs > 0) =>
        /\ result.kind = "error" /\ result.message = scheduler_type
        /\ completed = <<>>
        /\ staff_pool = InitStaff
        /\ scenario = "baseline"

\* the candidate set C6 names for each allocator
ClaimedCandidates(kind, pool, req) ==
    IF kind \in {"workload_based", "pooled", "quota_free"}
    THEN {i \in DOMAIN pool : pool[i].is_available}
    ELSE {i \in DOMAIN pool :
            pool[i].is_available /\ pool[i].college_affiliation = req.college}

\* C6: a step of the loop on a request within the horizon whose candidate set is
\* not empty assigns the request and appends it to the completed set, busy
\* candidates or not.
C6_DroppedOnlyWhenNoCandidate ==
    [][(/\ InLoop
        /\ sorted_requests[idx].submission_time <= start_time + duration_min * TicksPerMinute
        /\ ClaimedCandidates(allocator_type, staff_pool, sorted_requests[idx]) # {})
       => /\ Len(completed') = Len(completed) + 1
          /\ completed'[Len(completed')] = sorted_requests'[idx]
          /\ IsSet(sorted_requests'[idx].assignment_time)
          /\ sorted_requests'[idx].request_id = sorted_requests[idx].request_id]_vars

\* a request was assigned although its only candidate was busy when it came in
C6_Witness ==
    /\ allocator_type = "college_based" /\ pc = "loop"
    /\ \E r \in Elements(completed) : Val(r.assignment_time) > r.submission_time

\* C7: no allocator returns a staff member whose is_available is false, and a
\* step that assigns a request adds exactly 1 to the count of the chosen member.
C7_OnlyAvailableStaff ==
    [][InLoop =>
        /\ \A kind \in AllocatorTypes :
             \A i \in Assign(kind, staff_pool, sorted_requests[idx],
                             sorted_requests[idx].submission_time) :
                 staff_pool[i].is_available
        /\ completed' # completed =>
             LET s == StaffIndex(Val(completed'[Len(completed')].assigned_staff)) IN
             /\ staff_pool[s].is_available
             /\ staff_pool'[s].total_assigned = staff_pool[s].total_assigned + 1]_vars

\* a request of the absent member's college was assigned to another member
C7_Witness ==
    /\ ~staff_pool[3].is_available
    /\ \E r \in Elements(completed) : r.college = "CBA"

\* C8: in every step, no member's next_available_time or total_assigned
\* decreases, and a next_available_time changes only for the member the step
\* assigns a request to.
C8_StaffMonotone ==
    [][\A i \in DOMAIN staff_pool :
          /\ staff_pool'[i].next_available_time >= staff_pool[i].next_available_time
          /\ staff_pool'[i].total_assigned >= staff_pool[i].total_assigned
          /\ staff_pool'[i].next_available_time # staff_pool[i].next_available_time =>
               /\ Len(completed') = Len(completed) + 1
               /\ completed'[Len(completed')].assigned_staff =
                      Some(staff_pool[i].staff_id)]_vars

\* one member has been assigned two requests
C8_Witness ==
    \E i \in DOMAIN staff_pool :
        staff_pool[i].total_assigned >= 2 /\ staff_pool[i].next_available_time > 0

\* C9: calculate_priority(now) is in [0, 1] for every urgency in 1..10, requester
\* category and document type, when submission_time <= now.
C9_ScoreInUnitInterval ==
    probe # NoProbe =>
        (probe[1].submission_time <= now =>
            /\ probe[1].priority_score >= 0
            /\ probe[1].priority_score <= ScoreScale)

\* the candidate times C10 is checked at: the request's own and every time a
\* member becomes free
CandidateTimes ==
    {sorted_requests[idx].submission_time, start_time}
        \cup {staff_pool[i].next_available_time : i \in DOMAIN staff_pool}

\* C10: the pooled and the quota-free allocator return the same member, or both
\* none, in every roster state, for every request and candidate time; so a pooled
\* and a quota-free engine take the same steps.
C10_PooledEqualsQuotaFree ==
    InLoop =>
        /\ \A t \in CandidateTimes :
             PooledAssign(staff_pool, sorted_requests[idx], t)
                 = QuotaFreeAssign(staff_pool, sorted_requests[idx], t)
        /\ Assign("pooled", staff_pool, sorted_requests[idx],
                  sorted_requests[idx].submission_time)
             = Assign("quota_free", staff_pool, sorted_requests[idx],
                      sorted_requests[idx].submission_time)

\* a pooled or quota-free engine, one member already busy, the others tied
C10_Witness ==
    /\ InLoop /\ allocator_type \in {"pooled", "quota_free"}
    /\ \E i \in DOMAIN staff_pool :
         staff_pool[i].next_available_time > sorted_requests[idx].submission_time
    /\ \E i, j \in Available(staff_pool) :
         /\ i # j
         /\ StartKey(staff_pool, i, sorted_requests[idx].submission_time)
              = StartKey(staff_pool, j, sorted_requests[idx].submission_time)
         /\ PooledAssign(staff_pool, sorted_requests[idx],
                         sorted_requests[idx].submission_time) = {i}

\* C11: a staff-absence run on a fresh engine makes STAFF003 (college CBA), and
\* no other member, unavailable before any request is allocated; under the
\* college-based allocator STAFF003's load stays 0, in the roster and in the
\* report, and every request of college CBA is dropped.
C11_AbsentStaffNeverLoaded ==
    (runs = 1 /\ scenario = "staff_absence") =>
        /\ {i \in DOMAIN staff_pool : ~staff_pool[i].is_available} = {3}
        /\ staff_pool[3].staff_id = "STAFF003"
        /\ staff_pool[3].college_affiliation = "CBA"
        /\ allocator_type = "college_based" =>
             /\ staff_pool[3].total_assigned = 0
             /\ result.kind = "report" => result.staff_load["STAFF003"] = 0
             /\ \A r \in AllRequests : r.college = "CBA" => ~IsSet(r.assignment_time)
             /\ \A r \in Elements(completed) : r.assigned_staff # Some("STAFF003")

\* the loop is over, a CBA request was dropped and another request completed
C11_Witness ==
    /\ runs = 1 /\ scenario = "staff_absence" /\ allocator_type = "college_based"
    /\ pc = "loop" /\ idx > Len(sorted_requests)
    /\ \E r \in Elements(sorted_requests) : r.college = "CBA" /\ ~IsSet(r.assignment_time)
    /\ completed # <<>>

\* C12: the step of the loop on a request whose submission time exceeds
\* start_time + duration changes neither the completed set nor the roster nor
\* the request, and no completed request (the averages are taken over those) lies
\* beyond the duration of this first run.
C12_BeyondDurationSkipped ==
    [][/\ (InLoop /\ sorted_requests[idx].submission_time
                        > start_time + duration_min * TicksPerMinute)
          => /\ completed' = completed
             /\ staff_pool' = staff_pool
             /\ sorted_requests' = sorted_requests
       /\ \A r \in Elements(completed') :
            r.submission_time <= start_time + duration_min' * TicksPerMinute]_vars

\* the loop has passed a request beyond the duration and completed nothing
C12_Witness ==
    /\ pc = "loop" /\ idx > 1
    /\ sorted_requests[1].submission_time > start_time + duration_min * TicksPerMinute
    /\ ~IsSet(sorted_requests[1].assignment_time)
    /\ completed = <<>>

\* C13: an engine whose allocator kind is none of the four known kinds is
\* constructed and runs, and its allocator returns what the college-based one
\* does: a same-college available member, none when there is no such member.
C13_UnknownAllocatorIsCollegeBased ==
    InLoop =>
        \A kind \in {"round_robin", "", "POOLED"} :
            Assign(kind, staff_pool, sorted_requests[idx],
                   sorted_requests[idx].submission_time)
              = {i \in DOMAIN staff_pool :
                   /\ staff_pool[i].is_available
                   /\ staff_pool[i].college_affiliation = sorted_requests[idx].college}

\* an engine of an unknown allocator kind has dropped a CBA request and
\* completed another one
C13_Witness ==
    /\ allocator_type \notin AllocatorTypes
    /\ pc = "loop" /\ idx > Len(sorted_requests)
    /\ completed # <<>>
    /\ \E r \in Elements(sorted_requests) : r.college = "CBA" /\ ~IsSet(r.assignment_time)

RosterIds == {staff_pool[i].staff_id : i \in DOMAIN staff_pool}

\* C14: a report computed over an empty completed set has avg_waiting_time,
\* avg_turnaround, throughput and total_processed 0 and a staff_load with an
\* entry 0 for every member of the roster.
C14_EmptyReport ==
    (pc = "idle" /\ runs > 0 /\ completed = <<>> /\ scheduler_type \in SchedulerTypes) =>
        /\ result.kind = "report"
        /\ result.avg_waiting_time = 0 /\ result.avg_turnaround = 0
        /\ result.throughput = 0 /\ result.total_processed = 0
        /\ DOMAIN result.staff_load = RosterIds
        /\ Cardinality(RosterIds) = Len(staff_pool)
        /\ \A id \in RosterIds : result.staff_load[id] = 0

\* a run within its duration whose requests were all dropped has returned
C14_Witness ==
    /\ pc = "idle" /\ result.kind = "report" /\ completed = <<>>
    /\ scenario = "staff_absence" /\ duration_min = 60
    /\ result.total_processed = 0

\* C15: every score the driver computes under the priority-descending scheduler
\* is computed with submission_time <= now (now is start_time), so its
\* elapsed-wait term is not negative: the score is at least the score at zero wait.
C15_ScoredAfterSubmission ==
    (scheduler_type = "WEIGHTED" /\ pc = "loop") =>
        \A r \in Elements(sorted_requests) :
            /\ r.submission_time <= start_time
            /\ r.priority_score >= CalculatePriority(r, r.submission_time)

\* C16: a step that assigns a request sets its assignment time to the max of its
\* submission time and the chosen member's next_available_time, sets that
\* member's next_available_time to the request's completion time, and changes no
\* other member and no other request; a step that skips or drops a request
\* changes neither the roster nor the completed set nor the batch.
C16_StepFrame ==
    [][InLoop =>
        IF completed' # completed
        THEN LET done == sorted_requests'[idx]
                 s == StaffIndex(Val(done.assigned_staff))
             IN  /\ completed' = Append(completed, done)
                 /\ done.assignment_time =
                      Some(Max(sorted_requests[idx].submission_time,
                               staff_pool[s].next_available_time))
                 /\ staff_pool'[s].next_available_time = Val(done.completion_time)
                 /\ staff_pool'[s].is_available = staff_pool[s].is_available
                 /\ \A j \in DOMAIN staff_pool : j # s => staff_pool'[j] = staff_pool[j]
                 /\ \A k \in DOMAIN sorted_requests :
                        k # idx => sorted_requests'[k] = sorted_requests[k]
                 /\ idx' = idx + 1
        ELSE /\ staff_pool' = staff_pool
             /\ sorted_requests' = sorted_requests
             /\ idx' = idx + 1]_vars

\* two requests went to one member, the second starting when the first ended
C16_Witness ==
    /\ pc = "loop" /\ Len(completed) = 2
    /\ completed[1].assigned_staff = completed[2].assigned_staff
    /\ completed[2].assignment_time = completed[1].completion_time
    /\ Val(completed[2].assignment_time) > completed[2].submission_time

\* the least total_assigned among the members of a set
IsLeastLoaded(pool, i, cands) ==
    i \in cands /\ \A j \in cands : pool[i].total_assigned <= pool[j].total_assigned

\* C17: the workload-based allocator returns a same-college available member of
\* least total_assigned when there is one, otherwise an available member of least
\* total_assigned, and none only when no member is available; so a workload-based
\* staff-absence run drops no request within its duration.
C17_WorkloadBased ==
    /\ InLoop =>
         LET req == sorted_requests[idx]
             chosen == WorkloadBasedAssign(staff_pool, req, req.submission_time)
             same == {i \in DOMAIN staff_pool :
                        /\ staff_pool[i].is_available
                        /\ staff_pool[i].college_affiliation = req.college}
             avail == {i \in DOMAIN staff_pool : staff_pool[i].is_available}
         IN  /\ Cardinality(chosen) <= 1
             /\ same # {} => \E i \in chosen : IsLeastLoaded(staff_pool, i, same)
             /\ (same = {} /\ avail # {}) =>
                    \E i \in chosen : IsLeastLoaded(staff_pool, i, avail)
             /\ chosen = {} <=> avail = {}
    /\ (allocator_type = "workload_based" /\ pc = "loop" /\ scenario = "staff_absence") =>
         \A k \in DOMAIN sorted_requests :
             (/\ k < idx
              /\ sorted_requests[k].submission_time
                    <= start_time + duration_min * TicksPerMinute)
                => IsSet(sorted_requests[k].assignment_time)

\* a CBA request of a staff-absence run went to the least loaded other member
C17_Witness ==
    /\ allocator_type = "workload_based" /\ scenario = "staff_absence"
    /\ Len(completed) = 2
    /\ completed[1].college = "COE" /\ completed[1].assigned_staff = Some("STAFF001")
    /\ completed[2].college = "CBA" /\ completed[2].assigned_staff = Some("STAFF002")

\* C18: under the priority-descending scheduler the loop goes through the batch
\* in non-increasing priority_score order, requests of equal score in generation
\* order, and ordering the ordered batch again changes nothing.
C18_PriorityOrderStable ==
    (scheduler_type = "WEIGHTED" /\ pc = "loop") =>
        /\ \A i, j \in DOMAIN sorted_requests :
             i < j =>
                /\ sorted_requests[i].priority_score >= sorted_requests[j].priority_score
                /\ sorted_requests[i].priority_score = sorted_requests[j].priority_score
                     => sorted_requests[i].request_id < sorted_requests[j].request_id
        /\ SortByPriorityDescending(sorted_requests) = sorted_requests
        /\ {sorted_requests[i].request_id : i \in DOMAIN sorted_requests}
             = 0..(Len(sorted_requests) - 1)

\* a batch whose first two requests have one score, gone through in order
C18_Witness ==
    /\ scheduler_type = "WEIGHTED" /\ pc = "loop" /\ idx > Len(sorted_requests)
    /\ Len(sorted_requests) >= 2
    /\ sorted_requests[1].priority_score = sorted_requests[2].priority_score
    /\ sorted_requests[1].request_id < sorted_requests[2].request_id

InSubmissionOrder ==
    \A i, j \in DOMAIN sorted_requests :
        i < j =>
           /\ sorted_requests[i].submission_time <= sorted_requests[j].submission_time
           /\ sorted_requests[i].submission_time = sorted_requests[j].submission_time
                => sorted_requests[i].request_id < sorted_requests[j].request_id

InGenerationOrder ==
    \A i \in DOMAIN sorted_requests : sorted_requests[i].request_id = i - 1

\* C19, as claimed: under the arrival-order scheduler the loop goes through the
\* batch in non-decreasing submission order, ties in generation order, which is
\* the generation order REQ0000, REQ0001, ...
C19_ArrivalOrderIsGenerationOrder ==
    (scheduler_type = "FCFS" /\ pc = "loop") => (InSubmissionOrder /\ InGenerationOrder)

\* C19, amended: it is the generation order when duration_min >= 0.
C19_ArrivalOrder ==
    (scheduler_type = "FCFS" /\ pc = "loop") =>
        /\ InSubmissionOrder
        /\ duration_min >= 0 => InGenerationOrder

\* a batch of requests all submitted at the same time, gone through in order
C19_Witness ==
    /\ scheduler_type = "FCFS" /\ pc = "loop" /\ idx > Len(sorted_requests)
    /\ Len(sorted_requests) >= 2
    /\ sorted_requests[1].submission_time = sorted_requests[2].submission_time
    /\ sorted_requests[1].request_id = 0

\* C20: what FCFSScheduler.get_all returns is in ascending submission order, ties
\* in insertion order, and get_all leaves the queue empty.
C20_GetAllSorted ==
    sched_class = "FCFSScheduler" =>
        \A i, j \in DOMAIN returned :
            i < j =>
               /\ returned[i].submission_time <= returned[j].submission_time
               /\ returned[i].submission_time = returned[j].submission_time
                    => returned[i].request_id < returned[j].request_id

\* the pairs of positions of completed that hold two requests of one member
SameStaffPairs ==
    {p \in (DOMAIN completed) \X (DOMAIN completed) :
        /\ p[1] < p[2]
        /\ completed[p[1]].assigned_staff = completed[p[2]].assigned_staff}

\* the service interval of a ends before that of b begins
ServedBefore(a, b) == Val(b.assignment_time) >= Val(a.completion_time)

\* C21: for every staff member and every two distinct completed requests assigned
\* to that member, the service intervals [assignment_time, completion_time] do
\* not overlap: one's assignment_time is >= the other's completion_time, under
\* every scheduler kind and every allocator kind.
C21_NoOverlappingService ==
    \A p \in SameStaffPairs :
        \/ ServedBefore(completed[p[1]], completed[p[2]])
        \/ ServedBefore(completed[p[2]], completed[p[1]])

\* under the priority order one member served the request submitted later first,
\* and the earlier one had to wait for the member
C21_Witness ==
    /\ scheduler_type = "WEIGHTED"
    /\ \E p \in SameStaffPairs :
          /\ completed[p[1]].submission_time > completed[p[2]].submission_time
          /\ Val(completed[p[2]].assignment_time) > completed[p[2]].submission_time

\* C22: a staff member marked unavailable stays unavailable for the rest of the
\* engine's life: no step of any run, of whatever scenario, sets is_available
\* back to true, adds to the member's count or completes a request with the
\* member as its assigned staff.
C22_UnavailableForGood ==
    [][\A i \in DOMAIN staff_pool :
          ~staff_pool[i].is_available =>
             /\ ~staff_pool'[i].is_available
             /\ staff_pool'[i].total_assigned = staff_pool[i].total_assigned
             /\ Len(completed') > Len(completed) =>
                  completed'[Len(completed')].assigned_staff
                      # Some(staff_pool[i].staff_id)]_vars

\* after a staff-absence run, a later run of another scenario has gone past a
\* request of the absent member's college
C22_Witness ==
    /\ runs >= 2
    /\ scenario # "staff_absence"
    /\ ~staff_pool[3].is_available
    /\ pc = "loop"
    /\ \E k \in DOMAIN sorted_requests :
          /\ k < idx
          /\ sorted_requests[k].batch = runs
          /\ sorted_requests[k].college = staff_pool[3].college_affiliation
          /\ sorted_requests[k].assigned_staff # Some(staff_pool[3].staff_id)

====
